---- MODULE Spec2Model ----
(***************************************************************************)
(* Model of pandas/core/indexes/extension.py: ExtensionIndex, the Index    *)
(* subclass that delegates to a backing ExtensionArray.                    *)
(*                                                                         *)
(* Heap: `arrays` holds the backing arrays (immutable once attached),      *)
(* `objs` the Index objects; an object's position in the sequence is its   *)
(* identity.  `ret` records the last call: its arguments and its outcome.  *)
(* Every public method is one action; the pure part of a method is an      *)
(* operator that returns an outcome record, and the action commits it.     *)
(***************************************************************************)
EXTENDS Integers, Sequences, FiniteSets, TLC

VARIABLES arrays, objs, ret

vars == <<arrays, objs, ret>>

(* ------------------------------ bounds -------------------------------- *)

\* longest backing array the model builds
MaxLen == 2
\* stand-in for the interpreter's recursion limit (RecursionError beyond it)
RecursionLimit == 3

(* ------------------------------ values -------------------------------- *)

None == "None"
Names == {None, "x", "y"}

\* two distinct timedeltas (in days), and a str item: not a timedelta, never
\* valid for a timedelta-like array
TdVals == {1, 2}
StrVal == Cardinality(TdVals) + 1
Items == TdVals \cup {StrVal}
IsTd(v) == v \in TdVals

\* infer_dtype_from(item): the dtype an item would have on its own
ItemDtype(v) == IF IsTd(v) THEN "m8ns" ELSE "object"

SeqsUpTo(S, n) == UNION {[1..k -> S] : k \in 0..n}

InsertAt(s, k, v) == SubSeq(s, 1, k) \o <<v>> \o SubSeq(s, k + 1, Len(s))
RemoveAt(s, k) == SubSeq(s, 1, k - 1) \o SubSeq(s, k + 1, Len(s))
Range(s) == {s[k] : k \in 1..Len(s)}

RECURSIVE RepeatSeq(_, _)
RepeatSeq(s, n) ==
    IF s = <<>> THEN <<>>
    ELSE [k \in 1..n |-> s[1]] \o RepeatSeq(Tail(s), n)

(* ------------------------------ classes ------------------------------- *)

ExtensionClasses == {"TimedeltaIndex", "SubTimedeltaIndex", "CategoricalIndex"}
BaseClasses == {"Index", "MultiIndex"}
IndexClasses == ExtensionClasses \cup BaseClasses

\* direct base class of each Index class ("object" above Index)
Parent(c) ==
    CASE c = "SubTimedeltaIndex" -> "TimedeltaIndex"
      [] c = "TimedeltaIndex" -> "ExtensionIndex"
      [] c = "CategoricalIndex" -> "ExtensionIndex"
      [] c = "ExtensionIndex" -> "Index"
      [] c = "MultiIndex" -> "Index"
      [] c = "Int64Index" -> "Index"
      [] OTHER -> "object"

RECURSIVE IsSubclass(_, _)
IsSubclass(c, d) ==
    IF c = d THEN TRUE
    ELSE IF c = "object" THEN FALSE
    ELSE IsSubclass(Parent(c), d)

IsExtensionIndex(c) == IsSubclass(c, "ExtensionIndex")

ArrayClasses == {"TimedeltaArray", "Categorical", "ndarray"}

\* ExtensionIndex._data_cls of each concrete subclass
DataCls(c) ==
    IF IsSubclass(c, "TimedeltaIndex") THEN "TimedeltaArray"
    ELSE IF IsSubclass(c, "CategoricalIndex") THEN "Categorical"
    ELSE "ndarray"

(* ------------------------------ dtypes -------------------------------- *)

\* dtype arguments as callers spell them, and pandas_dtype's normal form
DtypeArgs == {"m8[ns]", "timedelta64[ns]", "object", "category", "M8[s]"}

pandas_dtype(d) ==
    CASE d \in {"m8[ns]", "timedelta64[ns]", "m8ns"} -> "m8ns"
      [] d \in {"object", "O"} -> "object"
      [] d = "category" -> "category"
      [] d \in {"M8[s]", "M8s"} -> "M8s"
      [] OTHER -> d

\* numpy dtypes (isinstance(dtype, np.dtype)); CategoricalDtype is not one
IsNpDtype(d) == d \in {"m8ns", "M8s", "object", "int64", "bool"}
is_dtype_equal(a, b) == pandas_dtype(a) = pandas_dtype(b)
is_object_dtype(d) == pandas_dtype(d) = "object"

(* ------------------------------ arrays -------------------------------- *)

Arr(acls, dtype, vals, cats) ==
    [acls |-> acls, dtype |-> dtype, vals |-> vals, cats |-> cats]

NoArr == Arr("none", "none", <<>>, {})

TdArr(vals) == Arr("TimedeltaArray", "m8ns", vals, {})
CatArr(vals, cats) == Arr("Categorical", "category", vals, cats)
ObjArr(vals) == Arr("ndarray", "object", vals, {})

\* the arrays a caller can hand to a constructor
InitArrays ==
    {TdArr(s) : s \in SeqsUpTo(TdVals, MaxLen)}
    \cup {CatArr(p[1], p[2]) :
               p \in {q \in SeqsUpTo(TdVals, MaxLen) \X (SUBSET TdVals) :
                          Range(q[1]) \subseteq q[2]}}
    \cup {ObjArr(s) : s \in SeqsUpTo(Items, MaxLen)}

(* --------------- backing-array operations (ExtensionArray) ------------ *)

ArrOk(a) == [kind |-> "ok", arr |-> a, exc |-> ""]
ArrRaise(e) == [kind |-> "raise", arr |-> NoArr, exc |-> e]

\* validate_insert_loc: -n <= loc <= n, negative loc counts from the end
InsertLocOk(n, loc) == -n <= loc /\ loc <= n
NormLoc(n, loc) == IF loc < 0 THEN loc + n ELSE loc

\* _validate_scalar of the array: may this item be stored in this array
ArrAccepts(a, item) ==
    CASE a.acls = "TimedeltaArray" -> IsTd(item)
      [] a.acls = "Categorical" -> item \in a.cats
      [] OTHER -> TRUE

\* arr.insert(loc, item): the position is validated first, then the item
ArrInsert(a, loc, item) ==
    IF ~InsertLocOk(Len(a.vals), loc) THEN ArrRaise("IndexError")
    ELSE IF ~ArrAccepts(a, item) THEN ArrRaise("TypeError")
    ELSE ArrOk([a EXCEPT !.vals = InsertAt(a.vals, NormLoc(Len(a.vals), loc), item)])

\* arr.delete(loc): np.delete, a scalar position in -n..n-1
ArrDelete(a, loc) ==
    IF ~(-Len(a.vals) <= loc /\ loc < Len(a.vals)) THEN ArrRaise("IndexError")
    ELSE ArrOk([a EXCEPT !.vals = RemoveAt(a.vals, NormLoc(Len(a.vals), loc) + 1)])

\* arr.repeat(repeats)
ArrRepeat(a, repeats) == ArrOk([a EXCEPT !.vals = RepeatSeq(a.vals, repeats)])

\* arr[key] for a scalar key
ArrGetItem(a, key) == a.vals[NormLoc(Len(a.vals), key) + 1]

\* arr.astype(dtype): a new array of that dtype, or a cast failure
ArrAstype(a, dtype) ==
    CASE dtype = "object" -> ArrOk(ObjArr(a.vals))
      [] dtype = "m8ns" /\ (\A k \in 1..Len(a.vals) : IsTd(a.vals[k])) ->
            ArrOk(TdArr(a.vals))
      [] dtype = "category" /\ (\A k \in 1..Len(a.vals) : IsTd(a.vals[k])) ->
            ArrOk(CatArr(a.vals, Range(a.vals)))
      [] OTHER -> ArrRaise("TypeError")

\* arr.equals(other): same array type, same dtype (categories included),
\* same elements in the same order
ArrEquals(a, b) ==
    /\ a.acls = b.acls
    /\ a.dtype = b.dtype
    /\ a.cats = b.cats
    /\ a.vals = b.vals

\* find_common_type over the array's dtype and the item's own dtype: a
\* categorical contributes the dtype of its categories
CommonDtype(a, item) ==
    LET mine == IF a.dtype = "category" THEN "m8ns" ELSE a.dtype
    IN IF mine = ItemDtype(item) THEN mine ELSE "object"

(* ------------------------- Index values ------------------------------- *)

\* An Index as the methods see it: its class, its backing array, its name;
\* aid / oid / ident are the heap identities of the array, of the object
\* and of its _id token (0: not on the heap yet, allocated on return).
Ix(cls, arr, name, aid, oid, ident) ==
    [cls |-> cls, arr |-> arr, name |-> name, aid |-> aid, oid |-> oid,
     ident |-> ident]

NoIx == Ix("none", NoArr, None, 0, 0, 0)

View(i) ==
    Ix(objs[i].cls, arrays[objs[i].data], objs[i].name, objs[i].data, i,
       objs[i].ident)

\* outcome of a method: an Index, or an exception; n counts the fallbacks
\* (casts) the call went through
OutIndex(x, n) == [kind |-> "index", x |-> x, exc |-> "", n |-> n]
OutRaise(e, n) == [kind |-> "raise", x |-> NoIx, exc |-> e, n |-> n]

\* Index.__new__(data, name=...): the subclass is chosen by the data's dtype
IndexClassFor(a) ==
    CASE a.acls = "TimedeltaArray" -> "TimedeltaIndex"
      [] a.acls = "Categorical" -> "CategoricalIndex"
      [] a.dtype = "int64" -> "Int64Index"
      [] OTHER -> "Index"

IndexNew(a, name) == Ix(IndexClassFor(a), a, name, 0, 0, 0)

\* Index.copy(): a new object of the same class viewing the same array,
\* same name, same _id token
IndexCopy(x) == Ix(x.cls, x.arr, x.name, x.aid, 0, x.ident)

\* Index.is_(other): both carry the same _id token
is_(x, y) == x.ident # 0 /\ x.ident = y.ident

\* Index._find_common_type_compat(item)
find_common_type_compat(x, item) == CommonDtype(x.arr, item)

(* ------------------------- ExtensionIndex ----------------------------- *)

\* mutant: the isinstance assertion is missing
_simple_new_unchecked(cls, a, aid, name) ==
    OutIndex(Ix(cls, a, name, aid, 0, 0), 0)

\* ExtensionIndex._simple_new(array, name)
_simple_new(cls, a, aid, name) ==
    IF a.acls # DataCls(cls) THEN OutRaise("AssertionError", 0)
    ELSE OutIndex(Ix(cls, a, name, aid, 0, 0), 0)

\* ExtensionIndex.__getitem__(key), scalar key
getitem(x, key) == ArrGetItem(x.arr, key)

\* mutant: the result is built as a plain TimedeltaIndex, not type(self)
delete_loses_type(x, loc) ==
    LET r == ArrDelete(x.arr, loc)
    IN IF r.kind = "raise" THEN OutRaise(r.exc, 0)
       ELSE OutIndex(Ix("TimedeltaIndex", r.arr, x.name, 0, 0, 0), 0)

\* ExtensionIndex.delete(loc)
delete(x, loc) ==
    LET r == ArrDelete(x.arr, loc)
    IN IF r.kind = "raise" THEN OutRaise(r.exc, 0)
       ELSE _simple_new(x.cls, r.arr, 0, x.name)

\* ExtensionIndex.repeat(repeats, axis=None)
repeat(x, repeats) ==
    LET r == ArrRepeat(x.arr, repeats)
    IN _simple_new(x.cls, r.arr, 0, x.name)

\* mutant: the cast is skipped, self is returned whatever the dtype
astype_returns_self(x, dtypeArg, copy) == OutIndex(x, 0)

\* mutant: copy is ignored on the equal-dtype path, self is always returned
astype_never_copies(x, dtypeArg, copy) ==
    LET dtype == pandas_dtype(dtypeArg)
    IN IF is_dtype_equal(x.arr.dtype, dtype) THEN OutIndex(x, 0)
       ELSE LET r == ArrAstype(x.arr, dtype)
            IN IF r.kind = "raise" THEN OutRaise(r.exc, 0)
               ELSE OutIndex(IndexNew(r.arr, x.name), 0)

\* mutant: copy is ignored on the equal-dtype path, a copy is always made
astype_always_copies(x, dtypeArg, copy) ==
    LET dtype == pandas_dtype(dtypeArg)
    IN IF is_dtype_equal(x.arr.dtype, dtype) THEN OutIndex(IndexCopy(x), 0)
       ELSE LET r == ArrAstype(x.arr, dtype)
            IN IF r.kind = "raise" THEN OutRaise(r.exc, 0)
               ELSE OutIndex(IndexNew(r.arr, x.name), 0)

\* ExtensionIndex.astype(dtype, copy)
astype(x, dtypeArg, copy) ==
    LET dtype == pandas_dtype(dtypeArg)
    IN IF is_dtype_equal(x.arr.dtype, dtype)
       THEN IF ~copy THEN OutIndex(x, 0) ELSE OutIndex(IndexCopy(x), 0)
       ELSE IF /\ IsNpDtype(x.arr.dtype)
               /\ IsNpDtype(dtype)
               /\ dtype \in {"M8ns", "M8s"}
               /\ dtype # "M8ns"
       THEN OutRaise("TypeError: Cannot cast to dtype", 0)
       ELSE LET r == ArrAstype(x.arr, dtype)
            IN IF r.kind = "raise" THEN OutRaise(r.exc, 0)
               ELSE OutIndex(IndexNew(r.arr, x.name), 0)

\* Index.insert(loc, item) of an object-dtype base Index: any item fits
Index_insert(x, loc, item) ==
    IF ~InsertLocOk(Len(x.arr.vals), loc) THEN OutRaise("IndexError", 0)
    ELSE OutIndex(
            IndexNew([x.arr EXCEPT
                        !.vals = InsertAt(x.arr.vals,
                                          NormLoc(Len(x.arr.vals), loc), item)],
                     x.name), 0)

\* ExtensionIndex.insert(loc, item); depth is the number of insert frames
\* already on the stack, n the number of casts made so far
RECURSIVE insert_rec(_, _, _, _)
insert_rec(x, loc, item, depth) ==
    IF depth >= RecursionLimit THEN OutRaise("RecursionError", depth)
    ELSE IF ~IsExtensionIndex(x.cls)
    THEN [Index_insert(x, loc, item) EXCEPT !.n = depth]
    ELSE LET r == ArrInsert(x.arr, loc, item)
         IN IF r.kind = "raise" /\ r.exc \in {"ValueError", "TypeError"}
            THEN LET dtype == find_common_type_compat(x, item)
                     c == astype(x, dtype, TRUE)
                 IN IF c.kind = "raise" THEN OutRaise(c.exc, depth + 1)
                    ELSE insert_rec(c.x, loc, item, depth + 1)
            ELSE IF r.kind = "raise" THEN OutRaise(r.exc, depth)
            ELSE [_simple_new(x.cls, r.arr, 0, x.name) EXCEPT !.n = depth]

\* mutant: no fallback, the array's ValueError / TypeError propagates
insert_no_fallback(x, loc, item) ==
    LET r == ArrInsert(x.arr, loc, item)
    IN IF r.kind = "raise" THEN OutRaise(r.exc, 0)
       ELSE _simple_new(x.cls, r.arr, 0, x.name)

insert(x, loc, item) == insert_rec(x, loc, item, 0)

\* mutant: the isinstance test is missing
equals_any_type(x, y) ==
    IF is_(x, y) THEN TRUE ELSE ArrEquals(x.arr, y.arr)

\* ExtensionIndex.equals(other)
equals(x, y) ==
    IF is_(x, y) THEN TRUE
    ELSE IF ~IsSubclass(y.cls, x.cls) THEN FALSE
    ELSE ArrEquals(x.arr, y.arr)

(* ------------------------------- map ---------------------------------- *)

\* A mapper is known by what it does when handed the whole index (returns
\* the index, returns an ndarray, returns some other object, raises) and
\* when handed one element (returns a str, raises).
Mappers == [whole : {"index", "ndarray", "scalar", "raise"}, elem : {"ok", "raise"}]
NoMapper == [whole |-> "none", elem |-> "none"]

StrSeq(n) == [k \in 1..n |-> StrVal]

\* Index.map(mapper) of the base class: element by element
Index_map(x, mapper) ==
    IF mapper.elem = "raise" /\ Len(x.arr.vals) > 0 THEN OutRaise("MapperError", 0)
    ELSE OutIndex(IndexNew(ObjArr(StrSeq(Len(x.arr.vals))), x.name), 0)

\* mutant: no fallback, whatever the mapper returns or raises is passed on
map_no_fallback(x, mapper) ==
    IF mapper.whole = "index" THEN OutIndex(x, 0)
    ELSE IF mapper.whole = "ndarray"
    THEN OutIndex(IndexNew(ObjArr(StrSeq(Len(x.arr.vals))), None), 0)
    ELSE IF mapper.whole = "scalar" THEN [kind |-> "scalar", x |-> NoIx, exc |-> "", n |-> 0]
    ELSE OutRaise("MapperError", 0)

\* ExtensionIndex.map(mapper); n counts the element-wise fallbacks
RECURSIVE map_rec(_, _, _)
map_rec(x, mapper, n) ==
    IF n >= RecursionLimit THEN OutRaise("RecursionError", n)
    ELSE IF ~IsExtensionIndex(x.cls) THEN [Index_map(x, mapper) EXCEPT !.n = n]
    ELSE IF mapper.whole = "index" THEN OutIndex(x, n)
    ELSE IF mapper.whole = "ndarray"
    THEN OutIndex(IndexNew(ObjArr(StrSeq(Len(x.arr.vals))), None), n)
    ELSE \* the mapper raised, or returned something that is no Index
         LET c == astype(x, "object", TRUE)
         IN IF c.kind = "raise" THEN OutRaise(c.exc, n + 1)
            ELSE map_rec(c.x, mapper, n + 1)

map(x, mapper) == map_rec(x, mapper, 0)

(* --------------------------- operators -------------------------------- *)

ArithOps == {"__add__", "__rsub__", "__divmod__"}
CmpOps == {"__eq__", "__lt__"}

\* operands: a timedelta scalar, an Index, a Series, a bare array
Operand(k, v, x) == [k |-> k, v |-> v, x |-> x]
NoOperand == Operand("none", 0, NoIx)
ScalarOp(v) == Operand("scalar", v, NoIx)
IndexOp(i) == Operand("index", 0, View(i))
SeriesOp(i) == Operand("series", 0, Ix("Series", View(i).arr, View(i).name, 0, 0, 0))
ArrayOp(a) == Operand("array", 0, Ix("none", a, None, 0, 0, 0))

\* hasattr(array, opname): Categorical implements no arithmetic
HasOp(a, opname) == opname \in CmpOps \/ a.acls = "TimedeltaArray"

Int64Arr(vals) == Arr("ndarray", "int64", vals, {})
BoolArr(vals) == Arr("ndarray", "bool", vals, {})

Scalar2(op, a, b) ==
    CASE op = "__add__" -> a + b
      [] op = "__rsub__" -> b - a
      [] OTHER -> a

\* result of the array's operator: arrays, a pair of arrays (divmod),
\* NotImplemented or an exception
AOut(kind, rs, exc) == [kind |-> kind, rs |-> rs, exc |-> exc]

ElemWise(op, vals, w) ==
    IF op = "__divmod__"
    THEN AOut("tuple",
              <<Int64Arr([k \in 1..Len(vals) |-> vals[k] \div w[k]]),
                TdArr([k \in 1..Len(vals) |-> vals[k] % w[k]])>>, "")
    ELSE AOut("array", <<TdArr([k \in 1..Len(vals) |-> Scalar2(op, vals[k], w[k])])>>, "")

\* TimedeltaArray.<opname>(operand)
ArrArith(a, op, operand) ==
    CASE operand.k = "series" -> AOut("NotImplemented", <<>>, "")
      [] operand.k = "scalar" ->
            ElemWise(op, a.vals, [k \in 1..Len(a.vals) |-> operand.v])
      [] OTHER ->
            LET w == operand.x.arr.vals
            IN IF Len(w) # Len(a.vals) THEN AOut("raise", <<>>, "ValueError")
               ELSE IF \E k \in 1..Len(w) : ~IsTd(w[k])
               THEN AOut("raise", <<>>, "TypeError")
               ELSE ElemWise(op, a.vals, w)

B2I(b) == IF b THEN 1 ELSE 0

\* array.<comparison>(operand): a boolean ndarray or an exception
ArrCmp(a, op, operand) ==
    LET w == IF operand.k = "scalar" THEN [k \in 1..Len(a.vals) |-> operand.v]
             ELSE operand.x.arr.vals
    IN IF Len(w) # Len(a.vals) THEN AOut("raise", <<>>, "ValueError")
       ELSE IF op = "__lt__" /\ (\E k \in 1..Len(w) : ~IsTd(w[k]))
       THEN AOut("raise", <<>>, "TypeError")
       ELSE AOut("array",
                 <<BoolArr([k \in 1..Len(w) |->
                              B2I(IF op = "__eq__" THEN a.vals[k] = w[k]
                                  ELSE a.vals[k] < w[k])])>>, "")

IsIndexOperand(o) == o.k = "index"

\* _maybe_unwrap_index(obj)
_maybe_unwrap_index(o) == IF IsIndexOperand(o) THEN ArrayOp(o.x.arr) ELSE o

\* pandas.core.ops.get_op_result_name(left, right)
get_op_result_name(x, other) ==
    IF /\ other.k \in {"index", "series"}
       /\ x.name # None
       /\ other.x.name # None
       /\ x.name = other.x.name
    THEN x.name
    ELSE None

\* outcome of an operator method; events lists, in order, what the method
\* did with the backing array and the operand
OpOut(kind, res, exc, events) ==
    [kind |-> kind, res |-> res, exc |-> exc, events |-> events]

\* one result of _wrap_arithmetic_op: a fresh Index carrying the name
Wrapped(a, name) == [cls |-> IndexClassFor(a), name |-> name, arr |-> a]

\* mutant: the second element of a divmod pair is left unnamed, and a
\* single result takes self's name without reconciling
_wrap_arithmetic_op_unnamed(x, other, result, events) ==
    IF result.kind = "NotImplemented" THEN OpOut("NotImplemented", <<>>, "", events)
    ELSE IF result.kind = "tuple"
    THEN OpOut("tuple",
               <<Wrapped(result.rs[1], get_op_result_name(x, other)),
                 Wrapped(result.rs[2], None)>>, "", events)
    ELSE OpOut("index", <<Wrapped(result.rs[1], x.name)>>, "", events)

\* _wrap_arithmetic_op(self, other, result)
_wrap_arithmetic_op(x, other, result, events) ==
    IF result.kind = "NotImplemented" THEN OpOut("NotImplemented", <<>>, "", events)
    ELSE IF result.kind = "tuple"
    THEN OpOut("tuple",
               <<Wrapped(result.rs[1], get_op_result_name(x, other)),
                 Wrapped(result.rs[2], get_op_result_name(x, other))>>, "", events)
    ELSE OpOut("index", <<Wrapped(result.rs[1], get_op_result_name(x, other))>>,
               "", events)

\* mutant: no deferral to object-dtype Index subclasses
arith_method_no_defer(x, opname, other) ==
    IF ~HasOp(x.arr, opname)
    THEN OpOut("raise", <<>>, "TypeError: cannot perform with " \o x.cls, <<"getattr">>)
    ELSE LET result == ArrArith(x.arr, opname, _maybe_unwrap_index(other))
         IN IF result.kind = "raise"
            THEN OpOut("raise", <<>>, result.exc, <<"getattr", "unwrap", "call">>)
            ELSE _wrap_arithmetic_op(x, other, result, <<"getattr", "unwrap", "call">>)

\* the method _make_wrapped_arith_op(opname) builds
arith_method(x, opname, other) ==
    IF /\ IsIndexOperand(other)
       /\ is_object_dtype(other.x.arr.dtype)
       /\ other.x.cls # "Index"
    THEN OpOut("NotImplemented", <<>>, "", <<>>)
    ELSE IF ~HasOp(x.arr, opname)
    THEN OpOut("raise", <<>>, "TypeError: cannot perform with " \o x.cls, <<"getattr">>)
    ELSE LET result == ArrArith(x.arr, opname, _maybe_unwrap_index(other))
         IN IF result.kind = "raise"
            THEN OpOut("raise", <<>>, result.exc, <<"getattr", "unwrap", "call">>)
            ELSE _wrap_arithmetic_op(x, other, result, <<"getattr", "unwrap", "call">>)

\* the method _make_wrapped_comparison_op(opname) builds
comparison_method(x, opname, other) ==
    LET o1 == IF other.k = "series" THEN ArrayOp(other.x.arr) ELSE other
        o2 == _maybe_unwrap_index(o1)
        result == ArrCmp(x.arr, opname, o2)
    IN IF result.kind = "raise"
       THEN OpOut("raise", <<>>, result.exc, <<"unwrap", "getattr", "call">>)
       ELSE OpOut("array", result.rs, "", <<"unwrap", "getattr", "call">>)

(* ------------------------------ state --------------------------------- *)
(* The client holds two references: idx, the index under study (object 1,  *)
(* over array 1), and r, the Index the last call returned (object 2 when   *)
(* it is not idx itself).  An object no reference reaches is collected.    *)

\* record of the last call; fields a call does not use keep these values
NoCall ==
    [op |-> "none", self |-> 0, kind |-> "none", id |-> 0, same |-> FALSE,
     shared |-> FALSE,
     exc |-> "", n |-> 0, loc |-> 0, item |-> 0, dtype |-> "", copy |-> FALSE,
     other |-> NoOperand, res |-> <<>>, events |-> <<>>, rejected |-> FALSE,
     aid |-> 0, name |-> None, cls |-> "", val |-> FALSE, mapper |-> NoMapper,
     selfx |-> NoIx]

Objs == 1..Len(objs)
ExtObjs == {i \in Objs : IsExtensionIndex(objs[i].cls)}

\* an Index value without its heap identities
Strip(x) == Ix(x.cls, x.arr, x.name, 0, 0, 0)

\* the heap after a call returned the Index value x: an object already on
\* the heap (x.oid # 0) is written back, a new one becomes object 2 (object
\* 1 when the heap is empty), and what r pointed to before is dropped
HeapObj(x, slot) ==
    [cls |-> x.cls,
     data |-> IF x.aid = 1 \/ slot = 1 THEN 1 ELSE 2,
     name |-> x.name,
     cache |-> IF x.oid # 0 THEN objs[x.oid].cache ELSE {},
     ident |-> IF x.ident = 1 \/ slot = 1 THEN 1 ELSE 2]

Return(call, out) ==
    IF out.kind # "index"
    THEN /\ UNCHANGED <<arrays, objs>>
         /\ ret' = [call EXCEPT !.kind = out.kind, !.exc = out.exc, !.n = out.n]
    ELSE LET x == out.x
             slot == IF x.oid # 0 THEN x.oid ELSE IF objs = <<>> THEN 1 ELSE 2
         IN /\ objs' = IF slot = 1 THEN <<HeapObj(x, 1)>>
                       ELSE <<objs[1], HeapObj(x, 2)>>
            /\ arrays' = IF slot = 1 THEN <<x.arr>>
                         ELSE IF x.aid = 1 THEN <<arrays[1]>>
                         ELSE <<arrays[1], x.arr>>
            /\ ret' = [call EXCEPT !.kind = "index", !.id = slot, !.n = out.n,
                                  !.same = (x.oid # 0 /\ x.oid = call.self),
                                  !.shared = (x.aid # 0)]

Init ==
    /\ arrays \in {<<a>> : a \in InitArrays}
    /\ objs = <<>>
    /\ ret = NoCall

(* ------------------------------ actions ------------------------------- *)

Call(op, i) == [NoCall EXCEPT !.op = op, !.self = i, !.selfx = Strip(View(i))]

\* r = cls._simple_new(array, name) on an array of the heap
SimpleNewOf(classes, names) ==
    \E cls \in classes, aid \in 1..Len(arrays), name \in names :
        Return([NoCall EXCEPT !.op = "_simple_new", !.cls = cls, !.aid = aid,
                             !.name = name],
               _simple_new(cls, arrays[aid], aid, name))

SimpleNew == SimpleNewOf(ExtensionClasses, Names)

\* idx = cls._simple_new(array, name): the first object of the heap, of one
\* of the library's own classes
Construct ==
    objs = <<>> /\ SimpleNewOf({"TimedeltaIndex", "CategoricalIndex"}, {None, "x"})

\* r = cls._simple_new(array, "x"): any class, one name
SimpleNewX == SimpleNewOf(ExtensionClasses, {"x"})

\* r = cls._simple_new(array, name) once idx exists
SimpleNewR == objs # <<>> /\ SimpleNew

\* r = cls(np.asarray(array, dtype=object), name=name) for the base Index
\* or an object-dtype subclass of it; an object array is taken as it is
NewBaseIndex ==
    \E cls \in BaseClasses, aid \in 1..Len(arrays), name \in Names :
        Return([NoCall EXCEPT !.op = "Index", !.cls = cls, !.aid = aid,
                             !.name = name],
               OutIndex(Ix(cls, ObjArr(arrays[aid].vals), name,
                           IF arrays[aid].dtype = "object" THEN aid ELSE 0,
                           0, 0), 0))

\* positions from one before the first valid one to one past the last
Locs(i) == LET n == Len(arrays[objs[i].data].vals) IN -(n + 1)..(n + 1)

Delete ==
    \E i \in ExtObjs :
      \E loc \in Locs(i) :
        Return([Call("delete", i) EXCEPT !.loc = loc], delete(View(i), loc))

Repeat ==
    \E i \in ExtObjs, repeats \in 0..MaxLen :
        /\ Len(arrays[objs[i].data].vals) * repeats <= MaxLen
        /\ Return([Call("repeat", i) EXCEPT !.loc = repeats],
                  repeat(View(i), repeats))

Insert ==
    \E i \in ExtObjs, item \in Items :
      \E loc \in Locs(i) :
        /\ Len(arrays[objs[i].data].vals) < MaxLen
        /\ Return([Call("insert", i) EXCEPT
                     !.loc = loc, !.item = item,
                     !.dtype = find_common_type_compat(View(i), item),
                     !.rejected =
                         LET r == ArrInsert(View(i).arr, loc, item)
                         IN r.kind = "raise" /\ r.exc \in {"ValueError", "TypeError"}],
                  insert(View(i), loc, item))

\* astype of an ExtensionIndex; of a base Index when the dtype is its own
Astype ==
    \E i \in Objs, dtypeArg \in DtypeArgs, copy \in BOOLEAN :
        /\ IsExtensionIndex(objs[i].cls)
             \/ is_dtype_equal(arrays[objs[i].data].dtype, dtypeArg)
        /\ Return([Call("astype", i) EXCEPT !.dtype = dtypeArg, !.copy = copy],
                  astype(View(i), dtypeArg, copy))

Map ==
    \E i \in ExtObjs, mapper \in Mappers :
        Return([Call("map", i) EXCEPT !.mapper = mapper], map(View(i), mapper))

Equals ==
    \E i \in ExtObjs, j \in Objs :
        /\ UNCHANGED <<arrays, objs>>
        /\ ret' = [Call("equals", i) EXCEPT !.id = j, !.kind = "bool",
                                           !.val = equals(View(i), View(j))]

\* the cached property _isnan: computed once, kept in the object's _cache
IsNan ==
    \E i \in ExtObjs :
        /\ objs' = [objs EXCEPT ![i].cache = @ \cup {"_isnan"}]
        /\ UNCHANGED arrays
        /\ ret' = [Call("_isnan", i) EXCEPT !.kind = "array"]

\* operands: a timedelta, an Index of the heap, the Series of such an Index
Operands ==
    {ScalarOp(v) : v \in TdVals}
    \cup {IndexOp(j) : j \in Objs}
    \cup {SeriesOp(j) : j \in Objs}

Arith ==
    \E i \in ExtObjs, opname \in ArithOps, other \in Operands :
        LET out == arith_method(View(i), opname, other)
        IN /\ UNCHANGED <<arrays, objs>>
           /\ ret' = [Call(opname, i) EXCEPT !.other = other,
                                   !.kind = out.kind, !.res = out.res,
                                   !.exc = out.exc, !.events = out.events]

Compare ==
    \E i \in ExtObjs, opname \in CmpOps, other \in Operands :
        LET out == comparison_method(View(i), opname, other)
        IN /\ UNCHANGED <<arrays, objs>>
           /\ ret' = [Call(opname, i) EXCEPT !.other = other,
                                   !.kind = out.kind, !.res = out.res,
                                   !.exc = out.exc, !.events = out.events]

Next ==
    \/ SimpleNew
    \/ NewBaseIndex
    \/ Delete
    \/ Repeat
    \/ Insert
    \/ Astype
    \/ Map
    \/ Equals
    \/ IsNan
    \/ Arith
    \/ Compare

Spec == Init /\ [][Next]_vars

\* the structural operations on an index built once
NextStruct == Construct \/ Delete \/ Repeat \/ Insert \/ Astype
SpecStruct == Init /\ [][NextStruct]_vars

\* construction and the per-object cache
NextNew == SimpleNew \/ IsNan
SpecNew == Init /\ [][NextNew]_vars

\* equality between indexes of several classes
NextEq == SimpleNewX \/ NewBaseIndex \/ Delete \/ Astype \/ Equals
SpecEq == Init /\ [][NextEq]_vars

\* arithmetic and comparison operators
NextOps == Construct \/ SimpleNewR \/ NewBaseIndex \/ Arith \/ Compare
SpecOps == Init /\ [][NextOps]_vars

\* map
NextMap == Construct \/ Map
SpecMap == Init /\ [][NextMap]_vars

(* ------------------------------ claims -------------------------------- *)

\* the Index a call returned, its array, and the length of the call's self
Result == View(ret.id)
ResVals == arrays[objs[ret.id].data].vals
SelfLen == Len(ret.selfx.arr.vals)

InsertRejected ==
    /\ ret.op = "insert"
    /\ ret.rejected
    /\ InsertLocOk(SelfLen, ret.loc)

\* C1 as stated: when the backing array rejects the item with ValueError or
\* TypeError and loc is in range, insert does not raise: it returns a new
\* index of the common dtype, one longer, whose element at position loc is
\* the item.
C1_InsertWidensAtLoc ==
    InsertRejected =>
        /\ ret.kind = "index"
        /\ ~ret.same
        /\ Result.arr.dtype = ret.dtype
        /\ Len(ResVals) = SelfLen + 1
        /\ getitem(Result, ret.loc) = ret.item

\* C1 amended: as above, but the item sits at position loc for loc >= 0 and
\* at position len(idx) + loc (loc - 1 counted from the new end) for loc < 0.
C1_InsertWidens ==
    InsertRejected =>
        /\ ret.kind = "index"
        /\ ~ret.same
        /\ Result.arr.dtype = ret.dtype
        /\ Len(ResVals) = SelfLen + 1
        /\ ResVals[NormLoc(SelfLen, ret.loc) + 1] = ret.item

C1_Witness ==
    /\ InsertRejected
    /\ ret.kind = "index"
    /\ ret.loc < 0
    /\ ret.selfx.arr.acls = "Categorical"

\* C2: for 0 <= p < len(idx), idx.delete(p).insert(p, idx[p]) is an index
\* of idx's class that idx.equals reports equal to idx, with the same
\* elements in the same order.
DeletedAt(p) ==
    /\ 0 <= p
    /\ p < Len(arrays[1].vals)
    /\ ret.loc = p
    /\ delete(View(1), p).kind = "index"
    /\ ret.selfx = Strip(delete(View(1), p).x)
    /\ ret.item = getitem(View(1), p)

C2_DeleteInsertRoundTrip ==
    \A p \in 0..MaxLen :
        (ret.op = "insert" /\ IsExtensionIndex(objs[1].cls) /\ DeletedAt(p)) =>
            /\ ret.kind = "index"
            /\ equals(View(1), Result)
            /\ Result.cls = objs[1].cls
            /\ ResVals = arrays[1].vals

C2_Witness ==
    /\ ret.op = "insert"
    /\ ret.self = 2
    /\ \E p \in 1..MaxLen : DeletedAt(p)
    /\ ret.kind = "index"
    /\ Len(ResVals) = MaxLen
    /\ ResVals[1] # ResVals[2]

StructOps == {"delete", "insert", "repeat", "astype"}

\* idx (object 1, over array 1) is what it was before the step
IdxKept ==
    objs # <<>> =>
        /\ objs' # <<>>
        /\ objs'[1].cls = objs[1].cls
        /\ objs'[1].data = objs[1].data
        /\ objs'[1].name = objs[1].name
        /\ arrays'[1] = arrays[1]

\* C4 as stated: every delete, insert, repeat, astype call returns an
\* instance distinct from the index it was called on, and leaves idx's data,
\* length and name as they were.
C4_AlwaysNewInstance ==
    [][ret'.op \in StructOps =>
          /\ IdxKept
          /\ ret'.kind = "index" => ~ret'.same]_vars

\* C4 amended: every such call leaves idx's data, length and name as they
\* were, and returns an instance distinct from the index it was called on,
\* except astype to the index's own dtype with copy=False, which returns
\* the index itself.
C4_NewInstanceUnlessNoop ==
    [][ret'.op \in StructOps =>
          /\ IdxKept
          /\ ret'.kind = "index" =>
                (ret'.same <=>
                    /\ ret'.op = "astype"
                    /\ ~ret'.copy
                    /\ is_dtype_equal(ret'.selfx.arr.dtype, ret'.dtype))]_vars

C4_Witness ==
    /\ ret.op \in {"delete", "insert", "repeat"}
    /\ ret.self = 2
    /\ ret.kind = "index"
    /\ ~ret.same
    /\ objs[2].name = objs[1].name
    /\ Len(arrays) = 2
    /\ arrays[2] # arrays[1]

\* C8: an astype(d) that succeeds returns an index of dtype d, so a second
\* astype(d, copy=False) on that result is the equal-dtype case; in the
\* equal-dtype case astype succeeds without a cast of the backing array
\* (the result views the same array), returns self when copy=False and a
\* copy equal to self when copy=True.
C8_AstypeIdempotent ==
    ret.op = "astype" =>
        /\ ret.kind = "index" => Result.arr.dtype = pandas_dtype(ret.dtype)
        /\ is_dtype_equal(ret.selfx.arr.dtype, ret.dtype) =>
              /\ ret.kind = "index"
              /\ Strip(Result) = ret.selfx
              /\ ret.shared
              /\ ret.same <=> ~ret.copy

C8_Witness ==
    /\ ret.op = "astype"
    /\ ret.self = 2
    /\ ~ret.copy
    /\ ret.same
    /\ IsExtensionIndex(objs[2].cls)
    /\ Len(arrays) = 2
    /\ arrays[2].dtype # arrays[1].dtype
    /\ arrays[2].vals = arrays[1].vals
    /\ Len(arrays[2].vals) > 0

Other == View(ret.id)

\* C5 as stated: x.equals(x) is true; x.equals(y) is false whenever y's
\* class is not x's class, subclasses of x's class included; for the same
\* class it is the backing arrays' equals.
C5_EqualsExactType ==
    ret.op = "equals" =>
        /\ ret.id = ret.self => ret.val
        /\ Other.cls # ret.selfx.cls => ~ret.val
        /\ Other.cls = ret.selfx.cls =>
              (ret.val <=> ArrEquals(ret.selfx.arr, Other.arr))

\* C5 amended: x.equals(x) is true; x.equals(y) is false whenever y is not
\* an instance of x's class (its class is neither x's class nor a subclass
\* of it); when y is an instance of x's class, a subclass included, it is
\* the backing arrays' equals.
C5_EqualsInstance ==
    ret.op = "equals" =>
        /\ ret.id = ret.self => ret.val
        /\ ~IsSubclass(Other.cls, ret.selfx.cls) => ~ret.val
        /\ IsSubclass(Other.cls, ret.selfx.cls) =>
              (ret.val <=> ArrEquals(ret.selfx.arr, Other.arr))

C5_Witness ==
    /\ ret.op = "equals"
    /\ ret.id # ret.self
    /\ Other.cls = "SubTimedeltaIndex"
    /\ ret.selfx.cls = "TimedeltaIndex"
    /\ ret.val

\* C6: _simple_new(array, name) fails, producing no object, unless the
\* array is of the class's _data_cls; otherwise it returns a new index of
\* that class holding that very array, as long as the array, with the given
\* name and an empty cache.
C6_SimpleNewChecked ==
    ret.op = "_simple_new" =>
        IF ret.kind = "index"
        THEN /\ arrays[ret.aid].acls = DataCls(ret.cls)
             /\ ~ret.same
             /\ objs[ret.id].cls = ret.cls
             /\ ret.shared
             /\ objs[ret.id].data = ret.aid
             /\ Len(ResVals) = Len(arrays[ret.aid].vals)
             /\ objs[ret.id].name = ret.name
             /\ objs[ret.id].cache = {}
        ELSE /\ ret.kind = "raise"
             /\ ret.exc = "AssertionError"
             /\ ret.id = 0
             /\ arrays[ret.aid].acls # DataCls(ret.cls)

C6_Witness ==
    /\ ret.op = "_simple_new"
    /\ ret.kind = "index"
    /\ ret.id = 2
    /\ ret.aid = 1
    /\ objs[1].cache # {}
    /\ Len(ResVals) = MaxLen

\* the name the claim gives the result of self <op> other
ClaimedName(selfname, other) ==
    IF /\ other.k \in {"index", "series"}
       /\ other.x.name # None
       /\ other.x.name = selfname
    THEN selfname
    ELSE None

\* C3: every Index an arithmetic operator returns, both elements of a
\* divmod pair included, is named self's name when other is a named index
\* or series of the same name and is unnamed otherwise; no object of the
\* heap, self and other included, is changed by the operation.
C3_ResultName ==
    [][ret'.op \in ArithOps =>
          /\ \A k \in DOMAIN ret'.res :
                ret'.res[k].name = ClaimedName(ret'.selfx.name, ret'.other)
          /\ ret'.kind = "tuple" => Len(ret'.res) = 2
          /\ ret'.kind = "index" => Len(ret'.res) = 1
          /\ objs' = objs
          /\ arrays' = arrays]_vars

C3_Witness ==
    /\ ret.op = "__divmod__"
    /\ ret.kind = "tuple"
    /\ ret.other.k = "index"
    /\ ret.res[1].name = "x"
    /\ ret.res[2].name = "x"

Defers(o) == o.k = "index" /\ o.x.arr.dtype = "object" /\ o.x.cls # "Index"

\* C7: an arithmetic method handed an object-dtype Index of a proper
\* subclass of Index returns NotImplemented before it touches the backing
\* array or unwraps the operand; for any other operand a backing array
\* without the operator gives a TypeError naming the index class, raised at
\* the lookup.  A comparison method never defers: it unwraps the operand,
\* looks the operator up, calls it, and returns the array's result as it is.
C7_ArithDefersCompareNot ==
    /\ ret.op \in ArithOps =>
          /\ Defers(ret.other) =>
                (ret.kind = "NotImplemented" /\ ret.events = <<>>)
          /\ (~Defers(ret.other) /\ ~HasOp(ret.selfx.arr, ret.op)) =>
                /\ ret.kind = "raise"
                /\ ret.exc = "TypeError: cannot perform with " \o ret.selfx.cls
                /\ ret.events = <<"getattr">>
    /\ ret.op \in CmpOps =>
          /\ ret.events = <<"unwrap", "getattr", "call">>
          /\ ret.kind \in {"array", "raise"}
          /\ ret.kind = "array" =>
                /\ Len(ret.res) = 1
                /\ ret.res[1].acls = "ndarray"
                /\ ret.res[1].dtype = "bool"
                /\ Len(ret.res[1].vals) = SelfLen

C7_Witness ==
    /\ ret.op \in ArithOps
    /\ Defers(ret.other)
    /\ ret.selfx.cls = "CategoricalIndex"
    /\ ret.kind = "NotImplemented"

\* C9: map returns the mapper's result on the whole index when that is an
\* Index or an ndarray (wrapped into an Index); otherwise (the mapper raised
\* or returned something else) it falls back, once, to the element-wise map
\* of the object-dtype cast; the outcome is an Index or the error of the
\* fallback.
C9_MapFallsBackOnce ==
    ret.op = "map" =>
        /\ ret.kind \in {"index", "raise"}
        /\ ret.n <= 1
        /\ ret.n = 0 <=> ret.mapper.whole \in {"index", "ndarray"}
        /\ ret.n = 0 => ret.kind = "index"
        /\ ret.mapper.whole = "index" => ret.same
        /\ ret.kind = "index" /\ ~ret.same => Result.cls = "Index"
        /\ ret.kind = "raise" => (ret.n = 1 /\ ret.exc = "MapperError")

C9_Witness ==
    /\ ret.op = "map"
    /\ ret.mapper.whole = "scalar"
    /\ ret.n = 1
    /\ ret.kind = "index"
    /\ Len(ResVals) = MaxLen

====
